---- MODULE Spec2Model ----
(***************************************************************************)
(* Streaming multiplexing client of src/src/ws.rs: the shared ClientState, *)
(* the callers of WSClient::send_request, the EventDispatcher (inbound)    *)
(* task, the RequestDispatcher (outbound) task, the client handle and the  *)
(* consumer of the WSClientStream.                                         *)
(***************************************************************************)
EXTENDS Integers, Sequences, FiniteSets, TLC

\* ---------------------------------------------------------------- bounds
\* number of send_request calls made over the life of one session
MaxCalls == 2
\* number of items the remote delivers on the read half (frames, a read
\* error or the end of the stream)
MaxFrames == 2
\* how many times 2^16 the integers handed to visit_i64 reach beyond the
\* range of an i16, on each side
Wraps == 1

\* ------------------------------------------------------ program constants
\* mpsc::channel(1) for the outbound queue
OutboundCap == 1
\* mpsc::channel(100) for the event queue
EventCap == 100
\* ClientState { next_id: 1, .. }
FirstId == 1

Calls == 1..MaxCalls
\* payloads of native ping frames
Payloads == {7}

\* ------------------------------------------------------------- the wire
\* JSON texts the remote can put into a text frame, described by what the
\* derived Deserialize implementations look at: the event tag "e", the
\* fields "method"/"params" of WSRequest, the fields "id" and "result" of
\* WSResponse, and whether the text is a JSON array of bytes.
Text(valid, e, method, id, result, bytes) ==
    [valid |-> valid, e |-> e, method |-> method, id |-> id,
     result |-> result, bytes |-> bytes]

EventText == Text(TRUE, TRUE, FALSE, 0, FALSE, FALSE)
RequestText == Text(TRUE, FALSE, TRUE, 0, FALSE, FALSE)
ResponseText(i) == Text(TRUE, FALSE, FALSE, i, TRUE, FALSE)
\* the remote's error reply to a command: {"id": i, "error": {code, msg}},
\* an object with an id and no "result"
ErrorReplyText(i) == Text(TRUE, FALSE, FALSE, i, FALSE, FALSE)
BytesText == Text(TRUE, FALSE, FALSE, 0, FALSE, TRUE)
MalformedText == Text(FALSE, FALSE, FALSE, 0, FALSE, FALSE)

Texts ==
    {EventText, RequestText, BytesText, MalformedText}
        \cup {ResponseText(i) : i \in Calls}
        \cup {ErrorReplyText(i) : i \in Calls}

\* WSMessage values and the decode failure of serde_json::from_str
Msg(tag, id, p) == [tag |-> tag, id |-> id, p |-> p]
DecodeErr == Msg("Err", 0, 0)

\* serde_json::from_str::<WSMessage>: an untagged enum, the variants are
\* tried in declaration order Event, Request, Response, Pong and the first
\* that deserializes wins; no match is an error.
from_str(t) ==
    IF ~t.valid THEN DecodeErr
    ELSE IF t.e THEN Msg("Event", 0, 0)
    ELSE IF t.method THEN Msg("Request", t.id, 0)
    ELSE IF t.id # 0 /\ t.result THEN Msg("Response", t.id, 0)
    ELSE IF t.bytes THEN Msg("Pong", 0, 0)
    ELSE DecodeErr

\* what self.stream.next() can resolve to: Some(Ok(Message)), Some(Err(_))
\* or None
Frame(kind, text, p) == [kind |-> kind, text |-> text, p |-> p]

Frames ==
    {Frame("Text", t, 0) : t \in Texts}
        \cup {Frame("Ping", MalformedText, p) : p \in Payloads}
        \cup {Frame(k, MalformedText, 0) : k \in {"Close", "Other", "ReadErr", "None"}}

\* no item read yet
NoFrame == Frame("Nothing", MalformedText, 0)

\* what an item read from the connection is, as the match of dispatch_events
\* tells the cases apart: a text that decodes to an event, a native ping
\* with its payload, or anything else
KindOf(f) ==
    IF f.kind = "Ping" THEN [kind |-> "ping", p |-> f.p]
    ELSE IF f.kind = "Text" /\ from_str(f.text).tag = "Event"
         THEN [kind |-> "event", p |-> 0]
    ELSE [kind |-> "other", p |-> 0]

\* ---------------------------------------------------------------- state
VARIABLES
    is_closed,    \* ClientState.is_closed
    next_id,      \* ClientState.next_id
    requests,     \* ClientState.requests: id -> the call that owns the sender
    pc,           \* per call: position inside send_request
    req_id,       \* per call: req.id, 0 for None
    has_timeout,  \* per call: req.timeout.is_some()
    rx,           \* per call: content of its oneshot channel
    result,       \* per call: what send_request returned
    request_q,    \* the outbound mpsc queue
    enq,          \* history: the items sent into the outbound queue, in order
    event_q,      \* the event mpsc queue
    stream,       \* the WSClientStream: "live", "ended" or "dropped"
    yielded,      \* items poll_next has yielded so far
    close_tx,     \* the handle and its close_tx: "held", "sent", "dropped"
    ed_pc,        \* position of EventDispatcher::dispatch_events
    ed_frame,     \* the last item self.stream.next() resolved to
    ed_item,      \* the item the EventDispatcher is sending
    ed_exit,      \* the way the inbound loop ended
    nframes,      \* items read from the connection so far
    budget,       \* items the connection has yet to deliver
    seen,         \* history: the kind of each item read, in read order
    rd_pc,        \* position of RequestDispatcher::dispatch_requests
    rd_msg,       \* the item the RequestDispatcher is writing
    wire,         \* items written to the sink so far
    lost,         \* history: items whose write to the sink failed
    value,        \* the i16 handed to Code::try_from
    api,          \* the type parameter C of Code<C>
    code,         \* what Code::try_from returned
    text          \* what Display::fmt wrote for the code

vars == <<is_closed, next_id, requests, pc, req_id, has_timeout, rx, result,
          request_q, event_q, stream, yielded, close_tx, ed_pc, ed_frame,
          ed_item, ed_exit, nframes, budget, rd_pc, rd_msg, wire, enq, seen,
          lost,
          value, api, code, text>>

state_vars == <<is_closed, next_id, requests>>
call_vars == <<pc, req_id, has_timeout, rx, result>>
consumer_vars == <<stream, yielded>>
ed_vars == <<ed_pc, ed_frame, ed_item, ed_exit, nframes, budget, seen>>
rd_vars == <<rd_pc, rd_msg, wire, lost>>
code_vars == <<value, api, code, text>>

\* content of a oneshot channel / outcome of a call
Val(kind, id) == [kind |-> kind, id |-> id]
Empty == Val("empty", 0)
\* the receiver (and the timer) of a call whose future has returned or has
\* been dropped
Gone == Val("gone", 0)
NoResult == Val("none", 0)
NoMsg == Msg("None", 0, 0)

\* a send_request future is alive (it borrows the handle)
Live(c) == pc[c] \in {"enqueue", "wait"}

\* WSClient::connect
Connected ==
    /\ is_closed = FALSE
    /\ next_id = FirstId
    /\ requests = << >>
    /\ pc = [c \in Calls |-> "idle"]
    /\ req_id = [c \in Calls |-> 0]
    /\ has_timeout = [c \in Calls |-> FALSE]
    /\ rx = [c \in Calls |-> Empty]
    /\ result = [c \in Calls |-> NoResult]
    /\ request_q = << >>
    /\ event_q = << >>
    /\ stream = "live"
    /\ yielded = << >>
    /\ close_tx = "held"
    /\ ed_pc = "select"
    /\ ed_frame = NoFrame
    /\ ed_item = NoMsg
    /\ ed_exit = "none"
    /\ nframes = 0
    /\ budget = MaxFrames
    /\ rd_pc = "recv"
    /\ rd_msg = NoMsg
    /\ wire = << >>
    /\ enq = << >>
    /\ seen = << >>
    /\ lost = << >>

\* ------------------------------------------------------ ClientState helpers
\* state.requests.insert(id, tx)
InsertRequest(reqs, id, c) ==
    [k \in (DOMAIN reqs) \cup {id} |-> IF k = id THEN c ELSE reqs[k]]

\* a remove that evicts the entry with the largest key when the key it was
\* given is absent
RemoveRequest_Evict(reqs, id) ==
    IF id \in DOMAIN reqs \/ DOMAIN reqs = {}
    THEN [k \in (DOMAIN reqs) \ {id} |-> reqs[k]]
    ELSE LET last == CHOOSE k \in DOMAIN reqs : \A j \in DOMAIN reqs : j <= k
         IN  [k \in (DOMAIN reqs) \ {last} |-> reqs[k]]

\* state.requests.remove(&id): the map without the key
RemoveRequest(reqs, id) ==
    [k \in (DOMAIN reqs) \ {id} |-> reqs[k]]

\* a counter that is not advanced
NextIdAfter_Stuck(n) == n

\* state.next_id += 1
NextIdAfter(n) == n + 1

\* the senders of the calls in S are dropped without a value having been
\* sent: a receiver that is still empty observes the channel as closed
DropSenders(chan, S) ==
    [c \in Calls |-> IF c \in S /\ chan[c] = Empty
                     THEN Val("dropped", 0) ELSE chan[c]]

\* a send that loses its value
SendOneshot_Lost(chan, c, v) == chan

\* tx.send(v) on the oneshot of call c: the value is stored when the
\* receiver is alive, and handed back (and discarded by `let _ =`) when the
\* receiver is gone
SendOneshot(chan, c, v) ==
    IF Live(c) THEN [chan EXCEPT ![c] = v] ELSE chan

\* r.map_err(|_| Error::WebsocketRequestCancelled).x_flatten() applied to
\* what the receiver resolves with
MapResult(v) ==
    IF v.kind = "dropped" THEN Val("cancelled", 0)
    ELSE IF v.kind = "err" THEN Val("transport", 0)
    ELSE v

\* ------------------------------------------------- WSClient::send_request
\* the critical section of send_request when the session is open: the id
\* is taken from next_id, the sender is inserted, next_id is incremented
SendRequestAccept(c, t) ==
    /\ close_tx = "held"
    /\ pc[c] = "idle"
    /\ \A d \in Calls : d < c => pc[d] # "idle"
    /\ ~is_closed
    /\ LET id == next_id
           replaced == IF id \in DOMAIN requests THEN {requests[id]} ELSE {}
       IN  /\ req_id' = [req_id EXCEPT ![c] = id]
           /\ requests' = InsertRequest(requests, id, c)
           /\ rx' = DropSenders(rx, replaced)
           /\ next_id' = NextIdAfter(next_id)
    /\ has_timeout' = [has_timeout EXCEPT ![c] = t]
    /\ pc' = [pc EXCEPT ![c] = "enqueue"]
    /\ UNCHANGED <<is_closed, result, request_q, enq, event_q, close_tx>>
    /\ UNCHANGED <<consumer_vars, ed_vars, rd_vars, code_vars>>

\* a critical section that tests is_closed after the id has been allocated
\* and the sender inserted
SendRequestClosed_Late(c) ==
    /\ close_tx = "held"
    /\ pc[c] = "idle"
    /\ \A d \in Calls : d < c => pc[d] # "idle"
    /\ is_closed
    /\ pc' = [pc EXCEPT ![c] = "done"]
    /\ result' = [result EXCEPT ![c] = Val("closed", 0)]
    /\ rx' = [rx EXCEPT ![c] = Gone]
    /\ requests' = InsertRequest(requests, next_id, c)
    /\ next_id' = NextIdAfter(next_id)
    /\ UNCHANGED <<is_closed, req_id, has_timeout, request_q, enq, event_q, close_tx>>
    /\ UNCHANGED <<consumer_vars, ed_vars, rd_vars, code_vars>>

\* the critical section when is_closed is set: return Err(WebsocketClosed)
SendRequestClosed(c) ==
    /\ close_tx = "held"
    /\ pc[c] = "idle"
    /\ \A d \in Calls : d < c => pc[d] # "idle"
    /\ is_closed
    /\ pc' = [pc EXCEPT ![c] = "done"]
    /\ result' = [result EXCEPT ![c] = Val("closed", 0)]
    /\ rx' = [rx EXCEPT ![c] = Gone]
    /\ UNCHANGED <<state_vars, req_id, has_timeout, request_q, enq, event_q, close_tx>>
    /\ UNCHANGED <<consumer_vars, ed_vars, rd_vars, code_vars>>

\* an enqueue of the request as it was passed in, with id: None
SendRequestEnqueue_NoId(c) ==
    /\ pc[c] = "enqueue"
    /\ Len(request_q) < OutboundCap
    /\ request_q' = Append(request_q, Msg("Request", 0, 0))
    /\ enq' = Append(enq, Msg("Request", 0, 0))
    /\ pc' = [pc EXCEPT ![c] = "wait"]
    /\ UNCHANGED <<state_vars, req_id, has_timeout, rx, result, event_q, close_tx>>
    /\ UNCHANGED <<consumer_vars, ed_vars, rd_vars, code_vars>>

\* self.request_tx.send(WSMessage::Request(req)).await completes once the
\* queue has room
SendRequestEnqueue(c) ==
    /\ pc[c] = "enqueue"
    /\ Len(request_q) < OutboundCap
    /\ request_q' = Append(request_q, Msg("Request", req_id[c], 0))
    /\ enq' = Append(enq, Msg("Request", req_id[c], 0))
    /\ pc' = [pc EXCEPT ![c] = "wait"]
    /\ UNCHANGED <<state_vars, req_id, has_timeout, rx, result, event_q, close_tx>>
    /\ UNCHANGED <<consumer_vars, ed_vars, rd_vars, code_vars>>

\* future::select resolves on the left: the oneshot receiver has completed
SendRequestResult(c) ==
    /\ pc[c] = "wait"
    /\ rx[c] # Empty
    /\ result' = [result EXCEPT ![c] = MapResult(rx[c])]
    /\ pc' = [pc EXCEPT ![c] = "done"]
    /\ rx' = [rx EXCEPT ![c] = Gone]
    /\ has_timeout' = [has_timeout EXCEPT ![c] = FALSE]
    /\ UNCHANGED <<state_vars, req_id, request_q, enq, event_q, close_tx>>
    /\ UNCHANGED <<consumer_vars, ed_vars, rd_vars, code_vars>>

\* future::select resolves on the right: the sleep has elapsed while the
\* receiver was still pending; the call returns Err(WebsocketRequestTimeout)
\* and touches nothing else
SendRequestTimeout(c) ==
    /\ pc[c] = "wait"
    /\ has_timeout[c]
    /\ rx[c] = Empty
    /\ result' = [result EXCEPT ![c] = Val("timeout", 0)]
    /\ pc' = [pc EXCEPT ![c] = "done"]
    /\ rx' = [rx EXCEPT ![c] = Gone]
    /\ has_timeout' = [has_timeout EXCEPT ![c] = FALSE]
    /\ UNCHANGED <<state_vars, req_id, request_q, enq, event_q, close_tx>>
    /\ UNCHANGED <<consumer_vars, ed_vars, rd_vars, code_vars>>

\* the caller drops the future of send_request at one of its await points:
\* the receiver and the timer are dropped, nothing else runs
SendRequestCancel(c) ==
    /\ Live(c)
    /\ pc' = [pc EXCEPT ![c] = "abandoned"]
    /\ rx' = [rx EXCEPT ![c] = Gone]
    /\ has_timeout' = [has_timeout EXCEPT ![c] = FALSE]
    /\ UNCHANGED <<state_vars, req_id, result, request_q, enq, event_q, close_tx>>
    /\ UNCHANGED <<consumer_vars, ed_vars, rd_vars, code_vars>>

send_request ==
    \E c \in Calls :
        \/ \E t \in BOOLEAN : SendRequestAccept(c, t)
        \/ SendRequestClosed(c)
        \/ SendRequestEnqueue(c)
        \/ SendRequestResult(c)
        \/ SendRequestTimeout(c)
        \/ SendRequestCancel(c)

\* ------------------------------------- EventDispatcher::dispatch_events
\* the smallest key of the map
FirstKey(reqs) == CHOOSE k \in DOMAIN reqs : \A j \in DOMAIN reqs : k <= j

\* a response handed to the oldest pending sender instead of the sender
\* stored under resp.id
ResolveResponse_Oldest(reqs, chan, id) ==
    IF DOMAIN reqs # {}
    THEN SendOneshot(chan, reqs[FirstKey(reqs)], Val("ok", id)) ELSE chan

\* WSMessage::Response(resp): the entry of resp.id is removed under the
\* lock and, when there was one, Ok(resp) is sent to its sender
ResolveResponse(reqs, chan, id) ==
    IF id \in DOMAIN reqs THEN SendOneshot(chan, reqs[id], Val("ok", id)) ELSE chan

\* a loop that forwards a decoded keepalive echo to the outbound queue
AfterText_ForwardsEcho(m) ==
    IF m.tag = "Event" THEN "send_event"
    ELSE IF m.tag = "Err" THEN "send_err"
    ELSE IF m.tag = "Pong" THEN "send_pong"
    ELSE "select"

\* a loop that ignores a decoded event like the other ignored shapes
AfterText_DropsEvent(m) ==
    IF m.tag = "Err" THEN "send_err"
    ELSE "select"

\* where the loop goes after a text frame that decoded to m
AfterText(m) ==
    IF m.tag = "Event" THEN "send_event"
    ELSE IF m.tag = "Err" THEN "send_err"
    ELSE "select"

\* select resolved on the left with Some(Ok(Message::Text(t)))
EdText(f) ==
    /\ f.kind = "Text"
    /\ LET m == from_str(f.text)
       IN  /\ ed_pc' = AfterText(m)
           /\ ed_item' = IF m.tag = "Event" THEN Msg("Event", 0, nframes + 1)
                         ELSE IF m.tag = "Err" THEN Msg("DecodeErr", 0, nframes + 1)
                         ELSE ed_item
           /\ ed_exit' = IF m.tag = "Err" THEN "decode" ELSE ed_exit
           /\ requests' = IF m.tag = "Response"
                          THEN RemoveRequest(requests, m.id) ELSE requests
           /\ rx' = IF m.tag = "Response"
                    THEN ResolveResponse(requests, rx, m.id) ELSE rx
    /\ UNCHANGED <<is_closed, next_id>>

\* an echo that does not take over the payload of the ping
EdPing_NoPayload(f) ==
    /\ f.kind = "Ping"
    /\ ed_pc' = "send_pong"
    /\ ed_item' = Msg("Pong", 0, 0)
    /\ UNCHANGED <<state_vars, rx, ed_exit>>

\* Message::Ping(p): the payload is to be forwarded as WSMessage::Pong(p)
EdPing(f) ==
    /\ f.kind = "Ping"
    /\ ed_pc' = "send_pong"
    /\ ed_item' = Msg("Pong", 0, f.p)
    /\ UNCHANGED <<state_vars, rx, ed_exit>>

\* Message::Close(_) => break
EdCloseFrame(f) ==
    /\ f.kind = "Close"
    /\ ed_pc' = "break"
    /\ ed_exit' = "close_frame"
    /\ UNCHANGED <<state_vars, rx, ed_item>>

\* any other message (binary, pong, raw frame) => ()
EdOther(f) ==
    /\ f.kind = "Other"
    /\ UNCHANGED <<state_vars, rx, ed_pc, ed_item, ed_exit>>

\* Some(Err(e)): the error is to be pushed to the event queue, then break
EdReadErr(f) ==
    /\ f.kind = "ReadErr"
    /\ ed_pc' = "send_err"
    /\ ed_item' = Msg("ReadErr", 0, nframes + 1)
    /\ ed_exit' = "read_err"
    /\ UNCHANGED <<state_vars, rx>>

\* an end of the stream reported to the consumer as a read error
EdEndOfStream_AsError(f) ==
    /\ f.kind = "None"
    /\ ed_pc' = "send_err"
    /\ ed_item' = Msg("ReadErr", 0, nframes + 1)
    /\ ed_exit' = "eos"
    /\ UNCHANGED <<state_vars, rx>>

\* None: the stream has ended => break
EdEndOfStream(f) ==
    /\ f.kind = "None"
    /\ ed_pc' = "break"
    /\ ed_exit' = "eos"
    /\ UNCHANGED <<state_vars, rx, ed_item>>

\* Either::Left: self.stream.next() completed first
EdSelectLeft ==
    /\ ed_pc = "select"
    /\ budget > 0
    /\ budget' = budget - 1
    /\ nframes' = nframes + 1
    /\ \E f \in Frames :
        /\ ed_frame' = f
        /\ seen' = Append(seen, KindOf(f))
        /\ \/ EdText(f)
           \/ EdPing(f)
           \/ EdCloseFrame(f)
           \/ EdOther(f)
           \/ EdReadErr(f)
           \/ EdEndOfStream(f)
    /\ UNCHANGED <<pc, req_id, has_timeout, result, request_q, enq, event_q, close_tx>>
    /\ UNCHANGED <<consumer_vars, rd_vars, code_vars>>

\* a select whose right arm resolves only with the value sent by close()
EdSelectRight_SentOnly ==
    /\ ed_pc = "select"
    /\ close_tx = "sent"
    /\ ed_pc' = "break"
    /\ ed_exit' = "close_signal"
    /\ UNCHANGED <<state_vars, call_vars, request_q, enq, event_q, close_tx, ed_frame, ed_item, nframes, budget, seen>>
    /\ UNCHANGED <<consumer_vars, rd_vars, code_vars>>

\* Either::Right: close_rx completed first, with the value sent by close()
\* or with the error of a dropped sender
EdSelectRight ==
    /\ ed_pc = "select"
    /\ close_tx # "held"
    /\ ed_pc' = "break"
    /\ ed_exit' = "close_signal"
    /\ UNCHANGED <<state_vars, call_vars, request_q, enq, event_q, close_tx, ed_frame, ed_item, nframes, budget, seen>>
    /\ UNCHANGED <<consumer_vars, rd_vars, code_vars>>

\* a loop that ends when it finds the receiver of the event queue gone
EdSendEvent_StopsOnDrop ==
    /\ ed_pc \in {"send_event", "send_err"}
    /\ \/ /\ stream = "dropped"
          /\ UNCHANGED event_q
       \/ /\ stream # "dropped"
          /\ Len(event_q) < EventCap
          /\ event_q' = Append(event_q, ed_item)
    /\ ed_pc' = IF ed_pc = "send_err" \/ stream = "dropped" THEN "break" ELSE "select"
    /\ ed_item' = NoMsg
    /\ UNCHANGED <<state_vars, call_vars, request_q, enq, close_tx, ed_frame, ed_exit, nframes, budget, seen>>
    /\ UNCHANGED <<consumer_vars, rd_vars, code_vars>>

\* a send into an event queue without a capacity
EdSendEvent_Unbounded ==
    /\ ed_pc \in {"send_event", "send_err"}
    /\ \/ /\ stream = "dropped"
          /\ UNCHANGED event_q
       \/ /\ stream # "dropped"
          /\ event_q' = Append(event_q, ed_item)
    /\ ed_pc' = IF ed_pc = "send_err" THEN "break" ELSE "select"
    /\ ed_item' = NoMsg
    /\ UNCHANGED <<state_vars, call_vars, request_q, enq, close_tx, ed_frame, ed_exit, nframes, budget, seen>>
    /\ UNCHANGED <<consumer_vars, rd_vars, code_vars>>

\* a loop that goes on reading after it has pushed an error
EdSendEvent_NoBreak ==
    /\ ed_pc \in {"send_event", "send_err"}
    /\ \/ /\ stream = "dropped"
          /\ UNCHANGED event_q
       \/ /\ stream # "dropped"
          /\ Len(event_q) < EventCap
          /\ event_q' = Append(event_q, ed_item)
    /\ ed_pc' = "select"
    /\ ed_item' = NoMsg
    /\ UNCHANGED <<state_vars, call_vars, request_q, enq, close_tx, ed_frame, ed_exit, nframes, budget, seen>>
    /\ UNCHANGED <<consumer_vars, rd_vars, code_vars>>

\* self.event_tx.send(..).await: completes when the event queue has room,
\* or at once with an ignored error when the receiver is gone
EdSendEvent ==
    /\ ed_pc \in {"send_event", "send_err"}
    /\ \/ /\ stream = "dropped"
          /\ UNCHANGED event_q
       \/ /\ stream # "dropped"
          /\ Len(event_q) < EventCap
          /\ event_q' = Append(event_q, ed_item)
    /\ ed_pc' = IF ed_pc = "send_err" THEN "break" ELSE "select"
    /\ ed_item' = NoMsg
    /\ UNCHANGED <<state_vars, call_vars, request_q, enq, close_tx, ed_frame, ed_exit, nframes, budget, seen>>
    /\ UNCHANGED <<consumer_vars, rd_vars, code_vars>>

\* self.request_tx.send(WSMessage::Pong(p)).await
EdSendPong ==
    /\ ed_pc = "send_pong"
    /\ Len(request_q) < OutboundCap
    /\ request_q' = Append(request_q, ed_item)
    /\ enq' = Append(enq, ed_item)
    /\ ed_pc' = "select"
    /\ ed_item' = NoMsg
    /\ UNCHANGED <<state_vars, call_vars, event_q, close_tx, ed_frame, ed_exit, nframes, budget, seen>>
    /\ UNCHANGED <<consumer_vars, rd_vars, code_vars>>

\* a loop that returns from the task on a close frame instead of breaking
ClosedAfterLoop_Return(exit) == exit # "close_frame"

\* the value written to the flag after the loop
ClosedAfterLoop(exit) == TRUE

\* after the loop: state.is_closed = true under the lock, then the task
\* ends and drops its event_tx, its request_tx and the read half
EdTerminate ==
    /\ ed_pc = "break"
    /\ is_closed' = ClosedAfterLoop(ed_exit)
    /\ ed_pc' = "done"
    /\ UNCHANGED <<next_id, requests, call_vars, request_q, enq, event_q, close_tx>>
    /\ UNCHANGED <<ed_frame, ed_item, ed_exit, nframes, budget, seen, consumer_vars, rd_vars, code_vars>>

dispatch_events ==
    \/ EdSelectLeft
    \/ EdSelectRight
    \/ EdSendEvent
    \/ EdSendPong
    \/ EdTerminate

\* --------------------------------- RequestDispatcher::dispatch_requests
\* an error sent to the caller of the request whether or not its sender
\* is still in the table
ReturnError_Blind(reqs, chan, id) ==
    IF \E c \in Calls : req_id[c] = id
    THEN [chan EXCEPT ![CHOOSE c \in Calls : req_id[c] = id] = Val("err", 0)]
    ELSE chan

\* a return_error that removes the entry and drops the error
ReturnError_Silent(reqs, chan, id) == chan

\* RequestDispatcher::return_error: the entry of the id is removed under
\* the lock and, when there was one, Err(e) is sent to its sender
ReturnError(reqs, chan, id) ==
    IF id \in DOMAIN reqs THEN SendOneshot(chan, reqs[id], Val("err", 0)) ELSE chan

\* the calls whose senders are stored in the map
Senders(reqs) == {reqs[k] : k \in DOMAIN reqs}

\* self.request_rx.recv().await returned Some(msg)
RdRecv ==
    /\ rd_pc = "recv"
    /\ request_q # << >>
    /\ rd_msg' = Head(request_q)
    /\ request_q' = Tail(request_q)
    /\ rd_pc' = "write"
    /\ UNCHANGED <<state_vars, call_vars, enq, event_q, close_tx, wire, lost>>
    /\ UNCHANGED <<consumer_vars, ed_vars, code_vars>>

\* a loop that ends as soon as it finds its queue empty
RdExhausted_Early ==
    /\ rd_pc = "recv"
    /\ request_q = << >>
    /\ rd_pc' = "done"
    /\ requests' = << >>
    /\ rx' = DropSenders(rx, Senders(requests))
    /\ UNCHANGED <<is_closed, next_id, pc, req_id, has_timeout, result>>
    /\ UNCHANGED <<request_q, enq, event_q, close_tx, rd_msg, wire, lost>>
    /\ UNCHANGED <<consumer_vars, ed_vars, code_vars>>

\* recv() returned None: the queue is empty and every sender (the handle's
\* and the EventDispatcher's) is gone.  The task ends; it held the last
\* reference to the ClientState, whose map and senders are dropped with it.
RdExhausted ==
    /\ rd_pc = "recv"
    /\ request_q = << >>
    /\ close_tx # "held"
    /\ ed_pc = "done"
    /\ rd_pc' = "done"
    /\ requests' = << >>
    /\ rx' = DropSenders(rx, Senders(requests))
    /\ UNCHANGED <<is_closed, next_id, pc, req_id, has_timeout, result>>
    /\ UNCHANGED <<request_q, enq, event_q, close_tx, rd_msg, wire, lost>>
    /\ UNCHANGED <<consumer_vars, ed_vars, code_vars>>

\* a sink that puts each item in front of those written before it
RdWrite_Prepend(ok) ==
    /\ rd_pc = "write"
    /\ wire' = IF ok THEN <<rd_msg>> \o wire ELSE wire
    /\ lost' = IF ok THEN lost ELSE Append(lost, rd_msg)
    /\ requests' = IF ~ok /\ rd_msg.tag = "Request"
                   THEN RemoveRequest(requests, rd_msg.id) ELSE requests
    /\ rx' = IF ~ok /\ rd_msg.tag = "Request"
             THEN ReturnError(requests, rx, rd_msg.id) ELSE rx
    /\ rd_pc' = "recv"
    /\ rd_msg' = NoMsg
    /\ UNCHANGED <<is_closed, next_id, pc, req_id, has_timeout, result>>
    /\ UNCHANGED <<request_q, enq, event_q, close_tx>>
    /\ UNCHANGED <<consumer_vars, ed_vars, code_vars>>

\* a loop that ends on the first write that fails
RdWrite_Fatal(ok) ==
    /\ rd_pc = "write"
    /\ wire' = IF ok THEN Append(wire, rd_msg) ELSE wire
    /\ lost' = IF ok THEN lost ELSE Append(lost, rd_msg)
    /\ requests' = IF ~ok /\ rd_msg.tag = "Request"
                   THEN RemoveRequest(requests, rd_msg.id) ELSE requests
    /\ rx' = IF ~ok /\ rd_msg.tag = "Request"
             THEN ReturnError(requests, rx, rd_msg.id) ELSE rx
    /\ rd_pc' = IF ok THEN "recv" ELSE "done"
    /\ rd_msg' = NoMsg
    /\ UNCHANGED <<is_closed, next_id, pc, req_id, has_timeout, result>>
    /\ UNCHANGED <<request_q, enq, event_q, close_tx>>
    /\ UNCHANGED <<consumer_vars, ed_vars, code_vars>>

\* a loop that puts an item whose write failed back into the queue to try
\* it again later
RdWrite_Requeue(ok) ==
    /\ rd_pc = "write"
    /\ wire' = IF ok THEN Append(wire, rd_msg) ELSE wire
    /\ request_q' = IF ok THEN request_q ELSE Append(request_q, rd_msg)
    /\ rd_pc' = "recv"
    /\ rd_msg' = NoMsg
    /\ UNCHANGED <<state_vars, call_vars, enq, event_q, close_tx, lost>>
    /\ UNCHANGED <<consumer_vars, ed_vars, code_vars>>

\* the body of the loop for the received item: a pong or a request is
\* written to the sink; a failed write of a request goes to return_error
RdWrite(ok) ==
    /\ rd_pc = "write"
    /\ wire' = IF ok THEN Append(wire, rd_msg) ELSE wire
    /\ lost' = IF ok THEN lost ELSE Append(lost, rd_msg)
    /\ requests' = IF ~ok /\ rd_msg.tag = "Request"
                   THEN RemoveRequest(requests, rd_msg.id) ELSE requests
    /\ rx' = IF ~ok /\ rd_msg.tag = "Request"
             THEN ReturnError(requests, rx, rd_msg.id) ELSE rx
    /\ rd_pc' = "recv"
    /\ rd_msg' = NoMsg
    /\ UNCHANGED <<is_closed, next_id, pc, req_id, has_timeout, result>>
    /\ UNCHANGED <<request_q, enq, event_q, close_tx>>
    /\ UNCHANGED <<consumer_vars, ed_vars, code_vars>>

dispatch_requests ==
    \/ RdRecv
    \/ RdExhausted
    \/ \E ok \in BOOLEAN : RdWrite(ok)

\* ------------------------------------------------------- the client handle
\* a close() that sets the flag itself
close_SetsFlag ==
    /\ close_tx = "held"
    /\ \A c \in Calls : ~Live(c)
    /\ close_tx' = "sent"
    /\ is_closed' = TRUE
    /\ UNCHANGED <<next_id, requests, call_vars, request_q, enq, event_q>>
    /\ UNCHANGED <<consumer_vars, ed_vars, rd_vars, code_vars>>

\* WSClient::close(self): takes the handle by value, so no send_request
\* future (which borrows it) is alive; fires the close signal
close ==
    /\ close_tx = "held"
    /\ \A c \in Calls : ~Live(c)
    /\ close_tx' = "sent"
    /\ UNCHANGED <<state_vars, call_vars, request_q, enq, event_q>>
    /\ UNCHANGED <<consumer_vars, ed_vars, rd_vars, code_vars>>

\* the handle is dropped without close(): close_tx is dropped with it
drop_handle ==
    /\ close_tx = "held"
    /\ \A c \in Calls : ~Live(c)
    /\ close_tx' = "dropped"
    /\ UNCHANGED <<state_vars, call_vars, request_q, enq, event_q>>
    /\ UNCHANGED <<consumer_vars, ed_vars, rd_vars, code_vars>>

\* WSClient::is_closed: reads the flag under the lock
IsClosed == is_closed

\* ---------------------------------------------------------- WSClientStream
\* a receiver that yields the newest queued item
PollNextItem_Newest ==
    /\ stream = "live"
    /\ event_q # << >>
    /\ yielded' = Append(yielded, event_q[Len(event_q)])
    /\ event_q' = SubSeq(event_q, 1, Len(event_q) - 1)
    /\ UNCHANGED <<state_vars, call_vars, request_q, enq, close_tx, stream>>
    /\ UNCHANGED <<ed_vars, rd_vars, code_vars>>

\* poll_next yields the oldest queued item
PollNextItem ==
    /\ stream = "live"
    /\ event_q # << >>
    /\ yielded' = Append(yielded, Head(event_q))
    /\ event_q' = Tail(event_q)
    /\ UNCHANGED <<state_vars, call_vars, request_q, enq, close_tx, stream>>
    /\ UNCHANGED <<ed_vars, rd_vars, code_vars>>

\* a sequence that ends as soon as its queue is empty
PollNextEnd_Early ==
    /\ stream = "live"
    /\ event_q = << >>
    /\ stream' = "ended"
    /\ UNCHANGED <<state_vars, call_vars, request_q, enq, event_q, close_tx, yielded>>
    /\ UNCHANGED <<ed_vars, rd_vars, code_vars>>

\* poll_next returns None: the queue is empty and the sender is gone
PollNextEnd ==
    /\ stream = "live"
    /\ event_q = << >>
    /\ ed_pc = "done"
    /\ stream' = "ended"
    /\ UNCHANGED <<state_vars, call_vars, request_q, enq, event_q, close_tx, yielded>>
    /\ UNCHANGED <<ed_vars, rd_vars, code_vars>>

\* the consumer drops the stream: the queued items go with the receiver
DropStream ==
    /\ stream = "live"
    /\ stream' = "dropped"
    /\ event_q' = << >>
    /\ UNCHANGED <<state_vars, call_vars, request_q, enq, close_tx, yielded>>
    /\ UNCHANGED <<ed_vars, rd_vars, code_vars>>

poll_next ==
    \/ PollNextItem
    \/ PollNextEnd

\* ------------------------------------------- error.rs: Code<C>::try_from
\* the values of an i16
I16 == (-(2^15))..(2^15 - 1)

\* the discriminants of enum CommonCode
CommonCodes ==
    ((-1007)..(-1000)) \cup {-1010, -1011} \cup ((-1016)..(-1013))
        \cup ((-1023)..(-1020)) \cup {-1099} \cup ((-1106)..(-1100))
        \cup ((-1121)..(-1108)) \cup {-1125, -1127, -1128, -1130, -1131}
        \cup {-2008, -2010, -2011} \cup ((-2016)..(-2013))
        \cup ((-2028)..(-2018))

\* the discriminants of enum FApiCode
FApiCodes ==
    {-1000} \cup ((-4033)..(-4000)) \cup ((-4086)..(-4044))

\* the discriminants of enum SApiCode
SApiCodes ==
    {-1000} \cup ((-3029)..(-3021)) \cup {-3036, -3037, -3038, -3042, -3999}
        \cup ((-4008)..(-4001)) \cup {-5011, -6001} \cup ((-6009)..(-6003))
        \cup ((-6019)..(-6011))

\* the discriminants of enum WSApiCode
WSApiCodes == 0..3

\* the types that implement ApiCode
Apis == {"FApiCode", "SApiCode", "WSApiCode"}

\* the table of the type parameter C
ApiTable(a) ==
    IF a = "FApiCode" THEN FApiCodes
    ELSE IF a = "SApiCode" THEN SApiCodes
    ELSE WSApiCodes

\* FromPrimitive::from_i16 of a derived enum: Some(variant) exactly when
\* the value is one of its discriminants
from_i16(table, v) == v \in table

\* the values of Result<Code<C>, &'static str>
Code(tier, v) == [tier |-> tier, v |-> v]
CodeErr == Code("Err", 0)
NoCode == Code("None", 0)

\* a filter range that starts one above its bound
try_from_Wide(v, a) ==
    IF v <= -8999 THEN Code("Filter", v)
    ELSE IF v <= -3000 \/ v >= 0
         THEN IF from_i16(ApiTable(a), v) THEN Code("Api", v) ELSE CodeErr
    ELSE IF from_i16(CommonCodes, v) THEN Code("Common", v) ELSE CodeErr

\* a filter range that stops one short of its bound
try_from_Strict(v, a) ==
    IF v < -9000 THEN Code("Filter", v)
    ELSE IF v <= -3000 \/ v >= 0
         THEN IF from_i16(ApiTable(a), v) THEN Code("Api", v) ELSE CodeErr
    ELSE IF from_i16(CommonCodes, v) THEN Code("Common", v) ELSE CodeErr

\* impl TryFrom<i16> for Code<C>
try_from(v, a) ==
    IF v <= -9000 THEN Code("Filter", v)
    ELSE IF v <= -3000 \/ v >= 0
         THEN IF from_i16(ApiTable(a), v) THEN Code("Api", v) ELSE CodeErr
    ELSE IF from_i16(CommonCodes, v) THEN Code("Common", v) ELSE CodeErr

\* the integers handed to visit_i64: every i16 and, on each side, Wraps
\* times 2^16 further values, so that each i16 is the truncation of some
\* value outside the range
I64Sample == (-(2^15) - Wraps * 2^16)..(2^15 - 1 + Wraps * 2^16)

\* `value as i16` on an i64: the low 16 bits, read as two's complement
AsI16(v) == ((v + 2^15) % 2^16) - 2^15

\* a visitor that casts without the range test
visit_i64_Unchecked(v, a) == try_from(AsI16(v), a)

\* CodeVisitor::visit_i64: the range test, then try_from on the cast
\* value; both failures are the same invalid_value error
visit_i64(v, a) ==
    IF v < -(2^15) \/ v > 2^15 - 1 THEN CodeErr
    ELSE try_from(AsI16(v), a)

\* visit_i64(value) is called
VisitI64 ==
    /\ code = NoCode
    /\ code' = visit_i64(value, api)
    /\ UNCHANGED <<value, api, text>>
    /\ UNCHANGED <<state_vars, call_vars, request_q, enq, event_q, close_tx>>
    /\ UNCHANGED <<consumer_vars, ed_vars, rd_vars>>

\* a string written by a Display implementation for an integer: a minus
\* sign or none, then decimal digits
Str(neg, digits) == [neg |-> neg, digits |-> digits]
NoText == Str(FALSE, << >>)

\* the decimal digits of a natural number, most significant first
RECURSIVE Digits(_)
Digits(n) == IF n < 10 THEN <<n>> ELSE Digits(n \div 10) \o <<n % 10>>

\* fmt::Display for i16
fmt_i16(n) == IF n < 0 THEN Str(TRUE, Digits(-n)) ELSE Str(FALSE, Digits(n))

\* a Display that writes the magnitude of the code without its sign
fmt_Unsigned(c) == Str(FALSE, Digits(IF c.v < 0 THEN -c.v ELSE c.v))

\* impl Display for Code<C>: each arm forwards to the Display of its
\* content, `*self as i16` for the code enums and the i16 of Filter
fmt(c) == fmt_i16(c.v)

\* the number a reader takes from a displayed string
RECURSIVE NumberOf(_)
NumberOf(d) ==
    IF d = << >> THEN 0
    ELSE 10 * NumberOf(SubSeq(d, 1, Len(d) - 1)) + d[Len(d)]

Shown(t) == IF t.neg THEN -NumberOf(t.digits) ELSE NumberOf(t.digits)

\* the code that try_from returned is displayed
Display ==
    /\ code \notin {NoCode, CodeErr}
    /\ text = NoText
    /\ text' = fmt(code)
    /\ UNCHANGED <<value, api, code>>
    /\ UNCHANGED <<state_vars, call_vars, request_q, enq, event_q, close_tx>>
    /\ UNCHANGED <<consumer_vars, ed_vars, rd_vars>>

\* Code::<C>::try_from(value) is called
TryFrom ==
    /\ code = NoCode
    /\ code' = try_from(value, api)
    /\ UNCHANGED <<value, api, text>>
    /\ UNCHANGED <<state_vars, call_vars, request_q, enq, event_q, close_tx>>
    /\ UNCHANGED <<consumer_vars, ed_vars, rd_vars>>

\* ------------------------------------------------------- specifications
\* the session after WSClient::connect; no code is being classified
Init ==
    /\ Connected
    /\ value = 0
    /\ api = "WSApiCode"
    /\ code = NoCode
    /\ text = NoText

Next ==
    \/ send_request
    \/ dispatch_events
    \/ dispatch_requests
    \/ close
    \/ drop_handle
    \/ poll_next
    \/ DropStream

Spec == Init /\ [][Next]_vars

\* The two dispatchers are tasks spawned on the runtime (tokio::spawn in
\* connect): a task whose pending await can complete is polled again, so
\* each takes a step it can keep taking.  When the write to the sink
\* completes is up to the connection, so RdWrite is not under fairness; nor
\* are the callers, the handle and the consumer, which are user code.
LiveSpec ==
    /\ Spec
    /\ WF_vars(dispatch_events)
    /\ WF_vars(RdRecv \/ RdExhausted)

\* LiveSpec with a consumer that keeps polling the WSClientStream
ReaderSpec == LiveSpec /\ WF_vars(poll_next)

\* The RequestDispatcher is a spawned task, and here the connection
\* completes every write it is given, with success or with an error: the
\* task takes a step it can keep taking.
DrainSpec == Spec /\ WF_vars(dispatch_requests)

\* Both dispatchers run as spawned tasks, on a connection that completes
\* every write it is given, and the consumer keeps polling its
\* WSClientStream for as long as it holds it.
SettleSpec ==
    /\ Spec
    /\ WF_vars(dispatch_events)
    /\ WF_vars(dispatch_requests)
    /\ WF_vars(poll_next)

\* the classifier applied to any i16, for each of the code tables
CodeInit ==
    /\ Connected
    /\ value \in I16
    /\ api \in Apis
    /\ code = NoCode
    /\ text = NoText

CodeNext == TryFrom

CodeSpec == CodeInit /\ [][CodeNext]_vars

\* the classifier applied to any i16 and the code it returns displayed
DisplayNext == TryFrom \/ Display

DisplaySpec == CodeInit /\ [][DisplayNext]_vars

\* the visitor of the Deserialize implementation applied to integers in
\* and around the range of an i16, for each of the code tables
VisitInit ==
    /\ Connected
    /\ value \in I64Sample
    /\ api \in Apis
    /\ code = NoCode
    /\ text = NoText

VisitNext == VisitI64

VisitSpec == VisitInit /\ [][VisitNext]_vars

\* the events the remote has pushed before the backlog specification starts
Backlog == EventCap - 1

\* the session after the remote has pushed Backlog events and the
\* dispatcher has queued them all, with a consumer that has not polled its
\* WSClientStream and a handle on which nothing has been called yet
BacklogInit ==
    /\ is_closed = FALSE
    /\ next_id = FirstId
    /\ requests = << >>
    /\ pc = [c \in Calls |-> "idle"]
    /\ req_id = [c \in Calls |-> 0]
    /\ has_timeout = [c \in Calls |-> FALSE]
    /\ rx = [c \in Calls |-> Empty]
    /\ result = [c \in Calls |-> NoResult]
    /\ request_q = << >>
    /\ event_q = [i \in 1..Backlog |-> Msg("Event", 0, i)]
    /\ stream = "live"
    /\ yielded = << >>
    /\ close_tx = "held"
    /\ ed_pc = "select"
    /\ ed_frame = Frame("Text", EventText, 0)
    /\ ed_item = NoMsg
    /\ ed_exit = "none"
    /\ nframes = Backlog
    /\ budget = MaxFrames
    /\ rd_pc = "recv"
    /\ rd_msg = NoMsg
    /\ wire = << >>
    /\ enq = << >>
    /\ seen = [i \in 1..Backlog |-> KindOf(Frame("Text", EventText, 0))]
    /\ lost = << >>
    /\ value = 0
    /\ api = "WSApiCode"
    /\ code = NoCode
    /\ text = NoText

\* the session with a consumer that does not read: the WSClientStream is
\* neither polled nor dropped
BacklogNext ==
    \/ send_request
    \/ dispatch_events
    \/ dispatch_requests
    \/ close
    \/ drop_handle

BacklogSpec == BacklogInit /\ [][BacklogNext]_vars

\* ==================================================================
\* Properties
\* ==================================================================

\* ids handed out so far
AssignedIds == {req_id[c] : c \in {d \in Calls : req_id[d] # 0}}

\* C1: the ids assigned by send_request start at 1, each accepted call gets
\* an id strictly greater than every id assigned before it, and no two
\* requests outstanding at the same time share an id.
C1_UniqueOutstanding ==
    \A c, d \in Calls : (c # d /\ Live(c) /\ Live(d)) => req_id[c] # req_id[d]

C1_AssignStep ==
    \A c \in Calls :
        (req_id[c] = 0 /\ req_id'[c] # 0) =>
            /\ (AssignedIds = {} => req_id'[c] = 1)
            /\ \A i \in AssignedIds : req_id'[c] > i

C1_IdsIncrease == [](C1_UniqueOutstanding) /\ [][C1_AssignStep]_vars

\* two calls outstanding together, holding the ids 1 and 2
C1_Witness ==
    /\ Live(1) /\ Live(2)
    /\ req_id[1] = 1 /\ req_id[2] = 2

\* C2: two concurrent requests resolve independently: a response carrying
\* id i reaches only the call that was assigned id i, no call is handed a
\* response with another id, and a step that resolves, times out or fails
\* one call leaves the channel, the position, the outcome and the pending
\* entry of every other waiting call as they were.
C2_OwnResponse ==
    \A c \in Calls :
        /\ rx[c].kind = "ok" => rx[c].id = req_id[c]
        /\ result[c].kind = "ok" => result[c].id = req_id[c]

C2_Touched(c) ==
    \/ rx'[c] # rx[c]
    \/ result'[c] # result[c]
    \/ pc'[c] # pc[c]

C2_IndependentStep ==
    \A c, d \in Calls :
        (c # d /\ Live(c) /\ Live(d) /\ C2_Touched(c)) =>
            /\ rx'[d] = rx[d]
            /\ result'[d] = result[d]
            /\ pc'[d] = pc[d]
            /\ (req_id[d] \in DOMAIN requests) = (req_id[d] \in DOMAIN requests')

C2_Independent == [](C2_OwnResponse) /\ [][C2_IndependentStep]_vars

\* of two waiting calls one has been sent its own response while the other
\* is still pending with its entry in the table
C2_Witness ==
    \E c, d \in Calls :
        /\ c # d /\ Live(c) /\ Live(d)
        /\ rx[c] = Val("ok", req_id[c])
        /\ rx[d] = Empty
        /\ req_id[d] \in DOMAIN requests

\* C3: a send_request that returned the timeout error has removed its id
\* from the pending table.
C3_TimeoutRemovesEntry ==
    \A c \in Calls :
        result[c].kind = "timeout" => req_id[c] \notin DOMAIN requests

\* C4: a send_request that was abandoned after its id was inserted has no
\* entry left in the pending table.
C4_CancelRemovesEntry ==
    \A c \in Calls :
        (pc[c] = "abandoned" /\ req_id[c] # 0) => req_id[c] \notin DOMAIN requests

\* C5: once close() has been called and the EventDispatcher has acted on
\* it, every request that was in flight has been failed with an error: none
\* is left in the pending table without an outcome.
C5_CloseFailsInFlight ==
    (close_tx = "sent" /\ ed_pc = "done" /\ ed_exit = "close_signal") =>
        \A c \in Calls :
            req_id[c] \in DOMAIN requests => rx[c].kind = "err"

\* C6: a send_request that starts when is_closed is set returns the
\* session-closed error in that same step, without an id, and leaves
\* next_id, the pending table and the outbound queue as they were.
C6_ClosedStep ==
    \A c \in Calls :
        (pc[c] = "idle" /\ pc'[c] # "idle" /\ is_closed) =>
            /\ pc'[c] = "done"
            /\ result'[c] = Val("closed", 0)
            /\ req_id'[c] = 0
            /\ next_id' = next_id
            /\ requests' = requests
            /\ request_q' = request_q

C6_FailFast == [][C6_ClosedStep]_vars

\* a call has returned the session-closed error
C6_Witness ==
    \E c \in Calls : result[c] = Val("closed", 0) /\ is_closed

\* C7: when the EventDispatcher has terminated, by whatever path, the
\* pending table is empty.
C7_TerminationEmptiesPending ==
    ed_pc = "done" => DOMAIN requests = {}

\* C8: an error reply of the remote to the pending command i is delivered to
\* the call that owns id i, and the EventDispatcher goes on: it stays in its
\* loop, is_closed stays false and no error item is on its way to the event
\* queue.
C8_ErrorReplyStep ==
    \A i \in Calls :
        ( /\ nframes' = nframes + 1
          /\ ed_frame' = Frame("Text", ErrorReplyText(i), 0)
          /\ i \in DOMAIN requests
          /\ Live(requests[i]) ) =>
            /\ rx'[requests[i]] # Empty
            /\ i \notin DOMAIN requests'
            /\ ed_pc' = "select"
            /\ ed_exit' = "none"
            /\ ed_item'.tag \notin {"DecodeErr", "ReadErr"}
            /\ ~is_closed'

C8_ErrorReplyScoped == [][C8_ErrorReplyStep]_vars

\* C9: is_closed starts false, only ever goes from false to true, and the
\* only step that writes it is the EventDispatcher's step after its loop.
C9_FlagStep ==
    /\ is_closed => is_closed'
    /\ (is_closed' # is_closed) => (ed_pc = "break" /\ ed_pc' = "done")

C9_FlagOneWay == (~is_closed) /\ [][C9_FlagStep]_vars

\* close() has been called and the flag has been set by the EventDispatcher
C9_Witness ==
    close_tx = "sent" /\ ed_pc = "done" /\ IsClosed

\* C10: in every state in which the EventDispatcher has terminated, by
\* whatever path, is_closed is true.
C10_TerminatedIsClosed ==
    ed_pc = "done" => IsClosed

\* the EventDispatcher has terminated on a close frame
C10_Witness ==
    ed_pc = "done" /\ ed_exit = "close_frame"

\* C11: once close() has been called the EventDispatcher eventually
\* consumes the signal and terminates, and is_closed becomes true, whatever
\* the dispatcher is waiting for when the signal fires.
C11_CloseEventuallyClosed ==
    (close_tx = "sent") ~> (ed_pc = "done" /\ is_closed)

\* an error item of the event sequence
ErrItem(m) == m.tag \in {"DecodeErr", "ReadErr"}

\* the items handed to the event sequence so far, yielded or still queued
Delivered == yielded \o event_q

\* the error items among the first n items of s
ErrorsIn(s) == {i \in 1..Len(s) : ErrItem(s[i])}

\* C12: after a decode failure on a text frame or a read error, exactly one
\* error item is pushed to the event queue, it is the last item of the
\* event sequence, and the loop never returns to reading: it goes from
\* pushing the error to its end, the failed item staying the last one read.
C12_FatalFrame ==
    \/ ed_frame.kind = "ReadErr" /\ ed_exit = "read_err"
    \/ ed_frame.kind = "Text" /\ from_str(ed_frame.text) = DecodeErr
          /\ ed_exit = "decode"

C12_ErrorOnceAndLast ==
    /\ Cardinality(ErrorsIn(Delivered)) <= 1
    /\ ErrorsIn(Delivered) \subseteq {Len(Delivered)}
    /\ ErrorsIn(Delivered) # {} => ed_exit \in {"decode", "read_err"}
    /\ ed_exit \in {"decode", "read_err"} =>
        /\ C12_FatalFrame
        /\ Len(seen) = nframes
        /\ ed_pc \in {"send_err", "break", "done"}
        /\ ed_pc = "send_err" =>
              ErrItem(ed_item) /\ ed_item.p = nframes /\ ErrorsIn(Delivered) = {}
        /\ (ed_pc # "send_err" /\ stream # "dropped") =>
              /\ ErrorsIn(Delivered) = {Len(Delivered)}
              /\ Delivered # << >>
              /\ Delivered[Len(Delivered)].p = nframes

\* the consumer has been yielded an event, then the error of a malformed
\* text, then the end of the sequence
C12_Witness ==
    /\ stream = "ended"
    /\ ed_exit = "decode"
    /\ Len(yielded) = 2
    /\ yielded[1].tag = "Event"
    /\ yielded[2].tag = "DecodeErr"

\* C13: a close frame, the end of the stream and the close signal each end
\* the inbound loop without an error item: none is pushed, none is on its
\* way, and the event sequence holds no error item.
C13_QuietExit ==
    ed_exit \in {"close_frame", "eos", "close_signal"} =>
        /\ ed_pc \in {"break", "done"}
        /\ ~ErrItem(ed_item)
        /\ ErrorsIn(Delivered) = {}

\* the sequence has ended after one event, the loop having been ended by
\* the close signal
C13_Witness ==
    /\ stream = "ended"
    /\ ed_exit = "close_signal"
    /\ Len(yielded) = 1
    /\ yielded[1].tag = "Event"

\* the positions, in read order, of the items read that were push events
EventsRead == {i \in 1..Len(seen) : seen[i].kind = "event"}

\* the members of a set of numbers in increasing order
Ascending(S) ==
    CHOOSE q \in [1..Cardinality(S) -> S] :
        \A i, j \in 1..Cardinality(S) : i < j => q[i] < q[j]

IsEvent(m) == m.tag = "Event"

\* the read positions carried by the events of a sequence of items
EventStamps(s) ==
    LET e == SelectSeq(s, IsEvent) IN [i \in 1..Len(e) |-> e[i].p]

\* s is an initial part of t
IsPrefix(s, t) == Len(s) <= Len(t) /\ s = SubSeq(t, 1, Len(s))

\* C15: the events the sequence yields are the events read from the
\* connection, in read order, each once: the events yielded so far are an
\* initial part of the events read, and while the stream exists the events
\* yielded, queued and being pushed are exactly the events read, in order.
C15_EventsInReadOrder ==
    /\ IsPrefix(EventStamps(yielded), Ascending(EventsRead))
    /\ stream # "dropped" =>
          EventStamps(Delivered \o (IF ed_pc = "send_event" THEN <<ed_item>> ELSE << >>))
              = Ascending(EventsRead)

\* two events have been read and yielded, the first one first
C15_Witness ==
    /\ EventsRead = {1, 2}
    /\ EventStamps(yielded) = <<1, 2>>

\* C19: a push event read while the pending table is not empty is handed to
\* the event sequence (the dispatcher pushes it next, and the push appends
\* it to the event queue of a stream that exists) and neither the read nor
\* the push changes the pending table, next_id, the closed flag or the
\* channel, position and outcome of any call; the waiting calls can still
\* be resolved by their own replies (C2).
C19_ReadStep ==
    (nframes' = nframes + 1 /\ KindOf(ed_frame').kind = "event") =>
        /\ ed_pc' = "send_event"
        /\ ed_item' = Msg("Event", 0, nframes')

C19_PushStep ==
    (ed_pc = "send_event" /\ ed_pc' # "send_event") =>
        /\ ed_pc' = "select"
        /\ stream # "dropped" => event_q' = Append(event_q, ed_item)

C19_EventStep ==
    ( /\ DOMAIN requests # {}
      /\ \/ nframes' = nframes + 1 /\ KindOf(ed_frame').kind = "event"
         \/ ed_pc = "send_event" /\ ed_pc' # "send_event" ) =>
        /\ C19_ReadStep
        /\ C19_PushStep
        /\ UNCHANGED <<requests, next_id, is_closed, rx, pc, result>>

C19_EventLeavesPending == [][C19_EventStep]_vars

\* an event is being pushed while two calls wait with their entries in the
\* pending table
C19_Witness ==
    /\ ed_pc = "send_event"
    /\ \A c \in Calls : pc[c] = "wait" /\ rx[c] = Empty /\ req_id[c] \in DOMAIN requests

\* C17: the event sequence signals its end only after the EventDispatcher
\* has terminated; at the end nothing is left queued and the items yielded
\* are every event read, in order, followed by the error of a fatal frame
\* when there was one; and with a consumer that keeps polling, a terminated
\* dispatcher leads to the end of the sequence (or to a stream the
\* consumer has dropped).
C17_EndState ==
    stream = "ended" =>
        /\ ed_pc = "done"
        /\ event_q = << >>
        /\ EventStamps(yielded) = Ascending(EventsRead)
        /\ ed_exit \in {"decode", "read_err"} =>
              yielded # << >> /\ ErrItem(yielded[Len(yielded)])

C17_EndsOnlyAfterTermination ==
    /\ [](C17_EndState)
    /\ (ed_pc = "done") ~> (stream \in {"ended", "dropped"})

\* the sequence has ended after an event and a read error were yielded
C17_Witness ==
    /\ stream = "ended"
    /\ Len(yielded) = 2
    /\ yielded[1].tag = "Event"
    /\ yielded[2].tag = "ReadErr"

\* the calls whose command failed to be written
WriteFailed ==
    {c \in Calls : \E i \in 1..Len(lost) : lost[i] = Msg("Request", req_id[c], 0)}

\* C18 as stated: a command whose write failed has its id out of the
\* pending table and its caller has not been given a timeout.
C18_FailedWriteNotTimeout ==
    \A c \in WriteFailed :
        /\ req_id[c] \notin DOMAIN requests
        /\ result[c].kind # "timeout"

\* C18 (amended): the step in which the write of a command fails removes
\* that command's id, and no other, from the pending table and, when its
\* caller is still waiting, puts the transport error into that caller's
\* channel; a waiting caller that holds the error returns it and not a
\* timeout; the id of a failed command is never in the table afterwards.
C18_FailStep ==
    (rd_pc = "write" /\ rd_msg.tag = "Request" /\ lost' # lost) =>
        /\ lost' = Append(lost, rd_msg)
        /\ requests' = RemoveRequest(requests, rd_msg.id)
        /\ \A c \in Calls :
              IF rd_msg.id \in DOMAIN requests /\ requests[rd_msg.id] = c /\ Live(c)
              THEN rx'[c] = Val("err", 0)
              ELSE rx'[c] = rx[c]

C18_CallerStep ==
    \A c \in Calls :
        (pc[c] = "wait" /\ rx[c].kind = "err" /\ pc'[c] # "wait") =>
            \/ pc'[c] = "abandoned"
            \/ pc'[c] = "done" /\ result'[c] = Val("transport", 0)

C18_FailedWriteRemoved ==
    \A c \in WriteFailed : req_id[c] \notin DOMAIN requests

C18_WriteFailureSurfaced ==
    [](C18_FailedWriteRemoved) /\ [][C18_FailStep /\ C18_CallerStep]_vars

\* a call has returned the transport error of its failed write
C18_Witness ==
    \E c \in WriteFailed : result[c] = Val("transport", 0)

\* s can be obtained from t by leaving items out
RECURSIVE IsSubseq(_, _)
IsSubseq(s, t) ==
    IF s = << >> THEN TRUE
    ELSE IF t = << >> THEN FALSE
    ELSE IF Head(s) = Head(t) THEN IsSubseq(Tail(s), Tail(t))
    ELSE IsSubseq(s, Tail(t))

\* the items the RequestDispatcher has taken or has still to take
InOutbound == (IF rd_pc = "write" THEN <<rd_msg>> ELSE << >>) \o request_q

\* the items the RequestDispatcher has finished with, in enqueue order
Processed == SubSeq(enq, 1, Len(enq) - Len(InOutbound))

\* C16: commands and keepalive echoes are written to the connection in
\* the order in which they were enqueued: the items written are, in
\* order, the enqueued items the RequestDispatcher has finished with,
\* less those whose write failed, and the items it has not finished with
\* are the last ones enqueued, in enqueue order.
C16_WrittenInEnqueueOrder ==
    /\ Len(InOutbound) <= Len(enq)
    /\ SubSeq(enq, Len(enq) - Len(InOutbound) + 1, Len(enq)) = InOutbound
    /\ IsSubseq(wire, Processed)
    /\ IsSubseq(lost, Processed)
    /\ Len(wire) + Len(lost) = Len(Processed)

\* a command, an echo and a second command were enqueued and have been
\* written in that order
C16_Witness ==
    /\ Len(enq) = 3
    /\ enq[1].tag = "Request" /\ enq[2].tag = "Pong" /\ enq[3].tag = "Request"
    /\ wire = enq

IsPing(k) == k.kind = "ping"
IsPong(m) == m.tag = "Pong"

\* the payloads of the pings read, in read order
PingsRead ==
    LET q == SelectSeq(seen, IsPing) IN [i \in 1..Len(q) |-> q[i].p]

\* the payloads of the pongs of a sequence of outbound items
PongPayloads(s) ==
    LET q == SelectSeq(s, IsPong) IN [i \in 1..Len(q) |-> q[i].p]

C20_FilterTier == value <= -9000
C20_ApiTier == value > -9000 /\ (value <= -3000 \/ value >= 0)
C20_CommonTier == value >= -2999 /\ value <= -1

C20_Tiers ==
    /\ Cardinality({t \in {1, 2, 3} :
            \/ t = 1 /\ C20_FilterTier
            \/ t = 2 /\ C20_ApiTier
            \/ t = 3 /\ C20_CommonTier}) = 1
    /\ code # NoCode =>
        /\ C20_FilterTier => code = Code("Filter", value)
        /\ C20_ApiTier =>
              code = IF value \in ApiTable(api) THEN Code("Api", value) ELSE CodeErr
        /\ C20_CommonTier =>
              code = IF value \in CommonCodes THEN Code("Common", value) ELSE CodeErr

\* -1000 is a discriminant of FApiCode and of CommonCode: it has been
\* classified as a common code
C20_Witness ==
    value = -1000 /\ api = "FApiCode" /\ code = Code("Common", -1000)

\* C21 as stated: -8999 and -9000 are Filter; -3000 is API when present in
\* the API table and a decode failure when absent; -2999 is Common when
\* present and a decode failure when absent; 0 is API (in the table of the
\* streaming codes, which has it); 32768 and -32769 are decode failures.
C21_BoundaryTable ==
    code # NoCode =>
        /\ value = -8999 => code = Code("Filter", -8999)
        /\ value = -9000 => code = Code("Filter", -9000)
        /\ value = -3000 =>
              code = IF -3000 \in ApiTable(api) THEN Code("Api", -3000) ELSE CodeErr
        /\ value = -2999 =>
              code = IF -2999 \in CommonCodes THEN Code("Common", -2999) ELSE CodeErr
        /\ (value = 0 /\ api = "WSApiCode") => code = Code("Api", 0)
        /\ value \in {32768, -32769} => code = CodeErr

\* C21 (amended): -8999 is above the filter range: it is looked up in the
\* API table, which in none of the three tables holds it, so it is a decode
\* failure; -9000 and -9001 are Filter; -3000 and 0 are API when present
\* in the API table (0 is, in the streaming table only) and a decode
\* failure when absent; -2999 and -1 are Common when present and a decode
\* failure when absent; 32768 and -32769 are decode failures.
C21_Boundaries ==
    code # NoCode =>
        /\ value = -8999 =>
              /\ code = IF -8999 \in ApiTable(api) THEN Code("Api", -8999) ELSE CodeErr
              /\ code = CodeErr
        /\ value \in {-9000, -9001} => code = Code("Filter", value)
        /\ value \in {-3000, 0} =>
              code = IF value \in ApiTable(api) THEN Code("Api", value) ELSE CodeErr
        /\ value = 0 => (code = Code("Api", 0)) = (api = "WSApiCode")
        /\ value \in {-2999, -1} =>
              code = IF value \in CommonCodes THEN Code("Common", value) ELSE CodeErr
        /\ value \in {32768, -32769} => code = CodeErr

\* -8999 has been classified, with a decode failure
C21_Witness ==
    value = -8999 /\ code = CodeErr

\* C22: an integer outside the range of an i16 is a decode failure: it is
\* never classified as the Filter, Api or Common code of its truncation.
C22_OutOfRangeFails ==
    (code # NoCode /\ value \notin I16) => code = CodeErr

\* 56536 truncates to -9000, a filter code; it has been refused
C22_Witness ==
    value = 2^16 - 9000 /\ AsI16(value) = -9000 /\ code = CodeErr

\* C23: the dispatcher never waits for room in the event queue: it is
\* never suspended in event_tx.send with the queue full and the consumer
\* not reading while a request written to the connection awaits its reply.
C23_NeverBlockedOnEvents ==
    ~ ( /\ ed_pc = "send_event"
        /\ Len(event_q) = EventCap
        /\ stream = "live"
        /\ \E c \in Calls :
              /\ pc[c] = "wait"
              /\ rx[c] = Empty
              /\ \E i \in 1..Len(wire) : wire[i] = Msg("Request", req_id[c], 0) )

\* the step in which the dispatcher reads a text frame that decodes to a
\* response whose id has no entry in the pending table
C24_OrphanStep ==
    /\ nframes' = nframes + 1
    /\ ed_frame'.kind = "Text"
    /\ from_str(ed_frame'.text).tag = "Response"
    /\ from_str(ed_frame'.text).id \notin DOMAIN requests

\* C24: a response whose id has no entry in the pending table is dropped
\* silently: no completion channel and no call changes, nothing is pushed
\* to the event queue or prepared for it, the pending table, next_id and
\* the closed flag are unchanged, and the dispatcher is back at its select.
C24_OrphanResponseDropped ==
    [][C24_OrphanStep =>
        /\ rx' = rx /\ result' = result /\ pc' = pc
        /\ event_q' = event_q /\ ed_item' = ed_item
        /\ requests' = requests /\ next_id' = next_id /\ is_closed' = is_closed
        /\ ed_pc' = "select" /\ ed_exit' = ed_exit]_vars

\* a response with an id that was never assigned has been read while
\* another request was pending, and the dispatcher is back at its select
C24_Witness ==
    /\ ed_frame.kind = "Text"
    /\ from_str(ed_frame.text).tag = "Response"
    /\ from_str(ed_frame.text).id >= next_id
    /\ requests # << >>
    /\ ed_pc = "select"
    /\ \E c \in Calls : pc[c] = "wait" /\ rx[c] = Empty

\* every entry of the pending table is stored under the id of the call
\* that owns its sender, so no two entries belong to one request
C25_OneEntryPerId ==
    \A k \in DOMAIN requests : req_id[requests[k]] = k

\* a caller inside send_request to whose channel nothing has been sent
\* has its id in the pending table
C25_WaitingHasEntry ==
    \A c \in Calls :
        (Live(c) /\ rx[c] = Empty) =>
            (req_id[c] \in DOMAIN requests /\ requests[req_id[c]] = c)

\* an entry leaves the table in a step that sends an outcome to its
\* caller, unless that caller has already left send_request by its
\* timeout or by cancellation
C25_RemovedWithOutcome ==
    \A k \in DOMAIN requests :
        k \notin DOMAIN requests' =>
            LET c == requests[k]
            IN  \/ Live(c) /\ rx[c] = Empty /\ rx'[c].kind \in {"ok", "err"}
                \/ ~Live(c) /\ (result[c].kind = "timeout" \/ pc[c] = "abandoned")

\* C25: at most one entry per id; a waiting caller to whom no outcome has
\* been sent has its entry in the pending table; an entry is removed only
\* together with the delivery of a reply or a write error, or belongs to a
\* request that has timed out or was cancelled.
C25_EntryHeldUntilOutcome ==
    /\ [](C25_OneEntryPerId /\ C25_WaitingHasEntry)
    /\ [][C25_RemovedWithOutcome]_vars

\* one call has received its reply and its entry is gone, while another
\* still waits with its entry in the table
C25_Witness ==
    \E c, d \in Calls :
        /\ pc[c] = "wait" /\ rx[c] = Empty /\ req_id[c] \in DOMAIN requests
        /\ rx[d] = Val("ok", req_id[d]) /\ req_id[d] # 0
        /\ req_id[d] \notin DOMAIN requests

\* what has been sent into a completion channel: Ok(resp) or Err(e)
Outcome(v) == v.kind \in {"ok", "err"}

\* a channel that holds an outcome is not written again: it keeps the
\* outcome until the receiver takes it or is dropped
C26_SentOnce ==
    \A c \in Calls : Outcome(rx[c]) => rx'[c] \in {rx[c], Gone}

\* a call that has returned has returned one of the five results, a reply
\* being the reply to its own id, and the result does not change afterwards
C26_OneResult ==
    \A c \in Calls :
        /\ pc[c] = "done" =>
              /\ result[c].kind \in {"ok", "transport", "timeout", "cancelled", "closed"}
              /\ result[c].kind = "ok" => result[c].id = req_id[c]
        /\ pc[c] # "done" => result[c] = NoResult

\* C26: a completion channel receives at most one outcome, also when a
\* reply, a write failure and a timeout of one id race; a call that returns
\* returns exactly one of the reply, a transport error, a timeout error, a
\* cancelled error or the session-closed error.
C26_AtMostOneOutcome ==
    /\ []C26_OneResult
    /\ [][C26_SentOnce /\ \A c \in Calls : pc[c] = "done" => result'[c] = result[c]]_vars

\* the reply to a request has reached its channel, the write of that
\* request has then been reported as failed, and its timer is still armed
C26_Witness ==
    \E c \in Calls :
        /\ pc[c] = "wait" /\ has_timeout[c]
        /\ rx[c] = Val("ok", req_id[c])
        /\ \E i \in 1..Len(lost) : lost[i] = Msg("Request", req_id[c], 0)

\* the step in which the write of the item held by the dispatcher fails
C27_WriteFails == rd_pc = "write" /\ lost' = Append(lost, rd_msg)

\* the failure touches neither the closed flag nor next_id, nor the entry
\* or the channel of any other id, nor any call's position or result, nor
\* the queues and the inbound dispatcher; the dispatcher goes back to
\* receiving from its queue
C27_Isolated ==
    C27_WriteFails =>
        /\ is_closed' = is_closed /\ next_id' = next_id
        /\ \A k \in DOMAIN requests :
              k # rd_msg.id => (k \in DOMAIN requests' /\ requests'[k] = requests[k])
        /\ DOMAIN requests' \subseteq DOMAIN requests
        /\ \A c \in Calls : req_id[c] # rd_msg.id => rx'[c] = rx[c]
        /\ pc' = pc /\ result' = result
        /\ request_q' = request_q /\ event_q' = event_q /\ wire' = wire
        /\ ed_pc' = ed_pc
        /\ rd_pc' = "recv"

\* the dispatcher ends only when its queue is empty and all senders are
\* gone, never on account of a failed write
C27_StillRunning ==
    rd_pc = "done" => (request_q = << >> /\ close_tx # "held" /\ ed_pc = "done")

\* C27: a write failure for one command affects only that command: the
\* closed flag, next_id and the entries of all other ids are unchanged,
\* and the dispatcher keeps running and takes the items enqueued after it.
C27_WriteFailureIsolated ==
    []C27_StillRunning /\ [][C27_Isolated]_vars

\* the write of request 1 has failed and request 2, enqueued after it, has
\* been written, with the session still open
C27_Witness ==
    /\ lost = <<Msg("Request", 1, 0)>>
    /\ wire = <<Msg("Request", 2, 0)>>
    /\ ~is_closed
    /\ rd_pc = "recv"

\* the dispatcher has ended only after the handle's sender and the inbound
\* dispatcher's sender were dropped and every item ever enqueued was
\* taken from the queue and written or reported as failed
C28_EndsWhenExhausted ==
    rd_pc = "done" =>
        /\ close_tx # "held" /\ ed_pc = "done"
        /\ request_q = << >> /\ rd_msg = NoMsg
        /\ Len(wire) + Len(lost) = Len(enq)

\* C28: the outbound dispatcher terminates once its queue is exhausted,
\* that is once every sender is dropped and the queued items are
\* processed, and not before; after close() (or the drop of the handle)
\* and the termination of the inbound dispatcher it eventually terminates.
C28_TerminatesWhenExhausted ==
    /\ []C28_EndsWhenExhausted
    /\ (close_tx # "held" /\ ed_pc = "done") ~> (rd_pc = "done")

\* the dispatcher has ended after close() with two items processed
C28_Witness ==
    /\ rd_pc = "done"
    /\ close_tx = "sent"
    /\ Len(enq) >= 2
    /\ Len(wire) + Len(lost) = Len(enq)

\* the commands among the items of s
Commands(s) == {s[i] : i \in {j \in 1..Len(s) : s[j].tag = "Request"}}

\* every command that was put into the outbound queue, and so every one
\* the dispatcher receives, carries an id (0 stands for None), and the id
\* is one that send_request has taken from next_id for one of its calls
C30_CarriesId ==
    /\ \A m \in Commands(enq) :
          /\ m.id # 0
          /\ m.id >= FirstId /\ m.id < next_id
          /\ \E c \in Calls : req_id[c] = m.id /\ pc[c] # "enqueue"
    /\ Commands(request_q) \subseteq Commands(enq)
    /\ rd_msg.tag = "Request" => rd_msg \in Commands(enq)

\* the step that enqueues a command: its id is already assigned, and the
\* table and the counter are not written in this step, the insert came
\* in an earlier one
C30_EnqueueStep ==
    (Len(enq') = Len(enq) + 1 /\ enq'[Len(enq')].tag = "Request") =>
        LET k == enq'[Len(enq')].id
        IN  /\ \E c \in Calls : pc[c] = "enqueue" /\ pc'[c] = "wait" /\ req_id[c] = k
            /\ k >= FirstId /\ k < next_id
            /\ requests' = requests /\ next_id' = next_id

\* C30: every command that reaches the outbound dispatcher carries an id,
\* and that id was inserted into the pending table before the command was
\* enqueued; the dispatcher never holds a command without an id.
C30_CommandsCarryIds ==
    []C30_CarriesId /\ [][C30_EnqueueStep]_vars

\* the dispatcher has looked up the id of request 1 after its write failed
\* and now holds request 2
C30_Witness ==
    /\ lost = <<Msg("Request", 1, 0)>>
    /\ rd_pc = "write"
    /\ rd_msg = Msg("Request", 2, 0)

\* neither queue holds more items than the capacity it was created with
C31_WithinCapacity ==
    /\ Len(request_q) <= OutboundCap
    /\ Len(event_q) <= EventCap

\* a sender whose queue is full stays in its send with its item: the
\* dispatcher in event_tx.send or request_tx.send, a caller in
\* request_tx.send (which only the caller itself can give up, by
\* dropping the future); the full queue loses no item to it
C31_FullQueueWaits ==
    /\ (ed_pc \in {"send_event", "send_err"} /\ stream = "live"
           /\ Len(event_q) = EventCap) =>
          (ed_pc' = ed_pc /\ ed_item' = ed_item /\ event_q' = event_q)
    /\ (ed_pc = "send_pong" /\ Len(request_q) = OutboundCap) =>
          (ed_pc' = ed_pc /\ ed_item' = ed_item /\ Len(request_q') <= Len(request_q))
    /\ \A c \in Calls :
          (pc[c] = "enqueue" /\ Len(request_q) = OutboundCap) =>
              (pc'[c] \in {"enqueue", "abandoned"} /\ Len(request_q') <= Len(request_q))

\* C31: the outbound queue never holds more than 1 item and the event
\* queue never more than 100; a sender that finds its queue full waits, it
\* neither adds its item nor drops one.
C31_BoundedQueues ==
    []C31_WithinCapacity /\ [][C31_FullQueueWaits]_vars

\* both queues are full, with the dispatcher waiting to push an event and
\* a caller waiting to enqueue its command
C31_Witness ==
    /\ Len(event_q) = EventCap /\ ed_pc = "send_event"
    /\ Len(request_q) = OutboundCap
    /\ \E c \in Calls : pc[c] = "enqueue"

\* the step in which the dispatcher reads a text frame that decodes to
\* WSMessage::Request or WSMessage::Pong
C32_ShapeStep ==
    /\ nframes' = nframes + 1
    /\ ed_frame'.kind = "Text"
    /\ from_str(ed_frame'.text).tag \in {"Request", "Pong"}

\* C32: an inbound text frame that decodes to a request shape or to a
\* keepalive-echo shape is ignored: nothing is pushed to the event queue or
\* prepared for it, nothing is enqueued outbound, the session state and
\* the completion channels are unchanged, and the dispatcher is back at
\* its select.
C32_ShapesIgnored ==
    [][C32_ShapeStep =>
        /\ event_q' = event_q /\ ed_item' = ed_item
        /\ request_q' = request_q /\ enq' = enq
        /\ is_closed' = is_closed /\ next_id' = next_id /\ requests' = requests
        /\ rx' = rx /\ pc' = pc /\ result' = result
        /\ ed_pc' = "select" /\ ed_exit' = ed_exit]_vars

\* with a request pending, a text that decodes to a keepalive echo has
\* been read as the second frame and the dispatcher is back at its select
C32_Witness ==
    /\ nframes = 2
    /\ ed_frame.kind = "Text"
    /\ from_str(ed_frame.text).tag = "Pong"
    /\ ed_pc = "select"
    /\ requests # << >>
    /\ request_q = << >>

\* the ids of the commands among the items of s, in the order of s
RECURSIVE CommandIds(_)
CommandIds(s) ==
    IF s = << >> THEN << >>
    ELSE IF Head(s).tag = "Request" THEN <<Head(s).id>> \o CommandIds(Tail(s))
    ELSE CommandIds(Tail(s))

\* the position of id k in the sequence of ids s (0 when absent)
PosOf(s, k) ==
    IF \E i \in 1..Len(s) : s[i] = k
    THEN CHOOSE i \in 1..Len(s) : s[i] = k ELSE 0

\* C33 as stated: of two commands written to the connection the one with
\* the smaller id was written first.
C33_IdOrderIsWireOrder ==
    LET w == CommandIds(wire)
    IN  \A p, q \in 1..Len(w) : p < q => w[p] < w[q]

\* C33 (amended): of two commands written to the connection the one that
\* was enqueued first was written first; two calls that both hold an id
\* and have not enqueued yet may enqueue in either order, so the command
\* with the larger id can be enqueued, and then written, first.
C33_EnqueueOrderIsWireOrder ==
    LET w == CommandIds(wire)
        e == CommandIds(enq)
    IN  \A p, q \in 1..Len(w) :
            p < q => (PosOf(e, w[p]) # 0 /\ PosOf(e, w[p]) < PosOf(e, w[q]))

\* the command with id 2 was enqueued and written before the one with id 1
C33_Witness ==
    /\ CommandIds(enq) = <<2, 1>>
    /\ CommandIds(wire) = <<2, 1>>

\* C34: in a state where the closed flag is set no command is enqueued
\* onto the outbound queue and none is written to the connection.
C34_NoCommandWhenClosed ==
    [][is_closed =>
        /\ CommandIds(enq') = CommandIds(enq)
        /\ CommandIds(wire') = CommandIds(wire)]_vars

\* C35: the deadline of a call covers the wait to enqueue: a call with a
\* timeout that waits to enqueue while the outbound queue is full and the
\* outbound dispatcher is inside a write can return the timeout error.
C35_DeadlineCoversEnqueue ==
    \A c \in Calls :
        ( /\ pc[c] = "enqueue" /\ has_timeout[c]
          /\ Len(request_q) = OutboundCap /\ rd_pc = "write" )
            => ENABLED SendRequestTimeout(c)

\* the right arm of the select is ready whenever the handle's close_tx is
\* gone, whether by close() or by the drop of the handle, and an exit by
\* the close signal has one of the two as its cause
C36_EitherResolves ==
    /\ (ed_pc = "select" /\ close_tx \in {"sent", "dropped"}) => ENABLED EdSelectRight
    /\ ed_exit = "close_signal" => close_tx \in {"sent", "dropped"}

\* where the session ends up after the close signal
C36_Settled == ed_pc = "done" /\ is_closed /\ stream \in {"ended", "dropped"}

C37_NeverBlocked ==
    stream = "dropped" =>
        /\ event_q = << >>
        /\ ed_pc \in {"send_event", "send_err"} => ENABLED EdSendEvent

\* with the WSClientStream dropped: dropping it changes neither the flag
\* nor the dispatcher; a discarded event takes the dispatcher back to its
\* select; a response read resolves the request pending under its id; a
\* ping read is forwarded with its payload; and the flag is only set by
\* the termination of the dispatcher after the connection ended, failed
\* or the handle was closed or dropped
C37_StepsAfterDrop ==
    /\ (stream = "live" /\ stream' = "dropped") =>
          (is_closed' = is_closed /\ ed_pc' = ed_pc /\ requests' = requests /\ rx' = rx)
    /\ (stream = "dropped" /\ ed_pc = "send_event" /\ ed_pc' # ed_pc) => ed_pc' = "select"
    /\ (stream = "dropped" /\ nframes' = nframes + 1) =>
          LET f == ed_frame'
              m == from_str(f.text)
          IN  /\ (f.kind = "Text" /\ m.tag = "Response" /\ m.id \in DOMAIN requests
                     /\ Live(requests[m.id])) =>
                    (rx'[requests[m.id]] = Val("ok", m.id) /\ m.id \notin DOMAIN requests')
              /\ f.kind = "Ping" =>
                    (ed_pc' = "send_pong" /\ ed_item' = Msg("Pong", 0, f.p))
              /\ (f.kind = "Text" /\ m.tag = "Event") => ed_pc' = "send_event"
    /\ (stream = "dropped" /\ ~is_closed /\ is_closed') =>
          (ed_pc = "break"
             /\ ed_exit \in {"close_frame", "eos", "read_err", "decode", "close_signal"})

\* C37: after the consumer has dropped the event sequence while the
\* handle is kept, the dispatcher keeps running: events are discarded
\* without blocking, responses resolve their pending requests, pings are
\* answered, and the closed flag stays false until the connection
\* terminates or the handle is closed.
C37_RunsWithoutConsumer ==
    []C37_NeverBlocked /\ [][C37_StepsAfterDrop]_vars

\* the consumer never took an item and has dropped the sequence; the
\* dispatcher read an event and then the response to request 1, which it
\* delivered, and the session is open with the handle held
C37_Witness ==
    /\ stream = "dropped" /\ yielded = << >>
    /\ Len(seen) = 2 /\ seen[1].kind = "event"
    /\ ed_frame = Frame("Text", ResponseText(1), 0)
    /\ \E c \in Calls : req_id[c] = 1 /\ rx[c] = Val("ok", 1)
    /\ ed_pc = "select" /\ ~is_closed /\ close_tx = "held"

\* C38: a stalled outbound dispatcher does not stop inbound processing:
\* while the outbound queue is full and the outbound dispatcher is inside
\* a write, the inbound dispatcher that has read a ping, with frames still
\* to come or the close signal given, can take its next step.
C38_InboundNotStalled ==
    ( /\ ed_pc = "send_pong"
      /\ Len(request_q) = OutboundCap /\ rd_pc = "write"
      /\ (budget > 0 \/ close_tx # "held") )
        => ENABLED dispatch_events

====
